---- MODULE Spec2Model ----
(***************************************************************************)
(* DocQuery-AI: the RAG engine (RAGEngine) as a state machine.             *)
(*                                                                         *)
(* The engine's state is its three fields vector_store, processed_files    *)
(* and chat_history.  Each public method is one action; the outcome of the *)
(* external collaborators (PDF loader, embedder, retriever, LLM) is an     *)
(* input of the action.  Two engines exist in the repository, the cloud    *)
(* engine (src/rag_engine.py) and the local engine (src/src/rag_engine.py);*)
(* `backend` says which one a behaviour runs.                              *)
(*                                                                         *)
(* Texts are sequences of characters (small integers).  Messages built by  *)
(* f-strings are records that keep the fixed text's kind and the values    *)
(* formatted into it.                                                      *)
(***************************************************************************)
EXTENDS Integers, Sequences, FiniteSets, TLC

(* ------------------------------ bounds -------------------------------- *)

\* most file names processed_files may hold before process_pdfs is disabled
MaxFiles == 3
\* most files one call of process_pdfs is given
MaxBatch == 2
\* most turns chat_history may hold before ask_question is disabled
MaxHistory == 2
\* most turns of a conversation drawn as a whole
MaxTurns == 7
\* most messages the session may hold before the chat input is disabled
MaxMessages == 2

(* ------------------------- program constants -------------------------- *)

chunk_size == 1000
chunk_overlap == 200
\* search_kwargs={"k": 4}
k == 4
\* doc.page_content[:300] (cloud), doc.page_content[:200] (local)
CloudSnippetLen == 300
LocalSnippetLen == 200
\* self.chat_history[-5:]
HistoryWindow == 5
\* the characters of "\n" and "."
NL == 10
Dot == 46

(* ------------------------------ inputs -------------------------------- *)

Backends == {"cloud", "local"}

EmptyText == <<>>
TextA == <<1, 2>>
TextB == <<3>>

\* What PyPDFLoader(tmp_path).load() does with a file's bytes: it raises,
\* or it returns one Document per page (possibly none, possibly with empty
\* text).  writable says whether tmp_file.write(file_content) succeeds.
Unreadable == [ok |-> FALSE, pages |-> <<>>, writable |-> TRUE]
Readable(pages) == [ok |-> TRUE, pages |-> pages, writable |-> TRUE]
\* bytes whose write to the temporary file raises
Unwritable == [ok |-> FALSE, pages |-> <<>>, writable |-> FALSE]

\* (filename, file_content) pairs a caller may upload; a name says nothing
\* about the bytes that come with it
Uploads ==
    { [name |-> "a.pdf", content |-> Readable(<<TextA>>)],
      [name |-> "b.pdf", content |-> Readable(<<TextA, TextB>>)],
      [name |-> "b.pdf", content |-> Unreadable],
      [name |-> "a.pdf", content |-> Readable(<<>>)],
      [name |-> "b.pdf", content |-> Readable(<<EmptyText>>)] }

RECURSIVE SeqsUpTo(_, _)
SeqsUpTo(S, n) ==
    IF n = 0 THEN {<<>>}
    ELSE LET shorter == SeqsUpTo(S, n - 1)
         IN  shorter \cup {Append(s, x) : s \in {t \in shorter : Len(t) = n - 1}, x \in S}

Questions == {"q1", "q2"}
Answers == {"ans"}

Min(a, b) == IF a < b THEN a ELSE b

(* ------------------------------ state --------------------------------- *)

VARIABLES
    backend,          \* which RAGEngine class is running
    vector_store,     \* self.vector_store: None or a FAISS store
    processed_files,  \* self.processed_files
    chat_history,     \* self.chat_history: sequence of <<question, answer>>
    lastOp,           \* the method called last
    call,             \* its arguments and what its collaborators did
    prev,             \* summary of the engine state the call started in
    ret,              \* how the call ended: a returned value or an exception
    prompt,           \* the variables of the prompt the call gave to the LLM
    session_state     \* st.session_state of the app, when the app drives the engine

vars == <<backend, vector_store, processed_files, chat_history,
          lastOp, call, prev, ret, prompt, session_state>>

None == [kind |-> "None"]
FAISS(docs) == [kind |-> "FAISS", docs |-> docs]

NoPrompt == [kind |-> "None"]

Returned(value) == [raised |-> FALSE, value |-> value]
Raised(e) == [raised |-> TRUE, value |-> e]

\* the engine object, as the methods see it
Self == [backend |-> backend,
         vector_store |-> vector_store,
         processed_files |-> processed_files,
         chat_history |-> chat_history]

Summary == [ready |-> vector_store # None,
            has_files |-> processed_files # <<>>,
            has_turns |-> chat_history # <<>>]

(* --------------------------- process_pdfs ----------------------------- *)

\* loader.load() followed by doc.metadata["source"] = filename
load(file) ==
    [i \in 1..Len(file.content.pages) |->
        [page_content |-> file.content.pages[i],
         source |-> file.name,
         page |-> i - 1]]

\* processed_files restarted by every file
record_file_only(files, filename) == <<filename>>

\* a loop that records no name
record_nothing(files, filename) == files

\* self.processed_files.append(filename)
record_file(files, filename) == Append(files, filename)

\* tempfile.NamedTemporaryFile(delete=False, suffix=".pdf"): the temporary
\* file of the i-th upload is on disk
create_tmp(tmp, i) == tmp \cup {i}

\* os.unlink(tmp_path)
unlink(tmp, i) == tmp \ {i}

\* a loop that skips a file it cannot stage or load and goes on
RECURSIVE load_all_skipping(_, _, _, _, _)
load_all_skipping(pdf_files, i, all_documents, files, tmp) ==
    IF i > Len(pdf_files)
    THEN [raised |-> FALSE, all_documents |-> all_documents, processed_files |-> files,
          tmp |-> tmp, attempted |-> i - 1]
    ELSE IF ~pdf_files[i].content.writable \/ ~pdf_files[i].content.ok
    THEN load_all_skipping(pdf_files, i + 1, all_documents, files, tmp)
    ELSE load_all_skipping(pdf_files, i + 1,
                           all_documents \o load(pdf_files[i]),
                           record_file(files, pdf_files[i].name),
                           tmp)

\* The for loop over pdf_files; tmp is the set of temporary files on disk.
\* A write that raises leaves the loop before the try statement, so its
\* finally clause (the unlink) is not run.  A load that raises leaves the
\* loop at once, after the finally clause; the names of the files loaded
\* before it are already appended to self.processed_files.  attempted is
\* the number of files whose staging was begun.
RECURSIVE load_all(_, _, _, _, _)
load_all(pdf_files, i, all_documents, files, tmp) ==
    IF i > Len(pdf_files)
    THEN [raised |-> FALSE, all_documents |-> all_documents, processed_files |-> files,
          tmp |-> tmp, attempted |-> i - 1]
    ELSE IF ~pdf_files[i].content.writable
    THEN [raised |-> TRUE, all_documents |-> all_documents, processed_files |-> files,
          tmp |-> create_tmp(tmp, i), attempted |-> i]
    ELSE IF ~pdf_files[i].content.ok
    THEN [raised |-> TRUE, all_documents |-> all_documents, processed_files |-> files,
          tmp |-> unlink(create_tmp(tmp, i), i), attempted |-> i]
    ELSE load_all(pdf_files, i + 1,
                  all_documents \o load(pdf_files[i]),
                  record_file(files, pdf_files[i].name),
                  unlink(create_tmp(tmp, i), i))

\* RecursiveCharacterTextSplitter.split_text on a text without separators:
\* nothing for an empty text, the text itself up to chunk_size, else windows
\* of chunk_size characters that start every chunk_size - chunk_overlap.
split_text(text) ==
    IF Len(text) = 0 THEN <<>>
    ELSE IF Len(text) <= chunk_size THEN <<text>>
    ELSE LET step == chunk_size - chunk_overlap
             n == ((Len(text) - chunk_overlap) + step - 1) \div step
         IN  [j \in 1..n |->
                SubSeq(text, (j - 1) * step + 1, Min((j - 1) * step + chunk_size, Len(text)))]

\* self.text_splitter.split_documents(all_documents): every chunk keeps the
\* metadata of its document
RECURSIVE split_documents(_)
split_documents(documents) ==
    IF documents = <<>> THEN <<>>
    ELSE LET doc == Head(documents)
             texts == split_text(doc.page_content)
         IN  [j \in 1..Len(texts) |->
                [page_content |-> texts[j], source |-> doc.source, page |-> doc.page]]
             \o split_documents(Tail(documents))

\* FAISS.from_documents that builds an empty index from no chunks
only_embedder_raises(chunks, embed_ok) == ~embed_ok

\* FAISS.from_documents(chunks, embeddings) raises when the embedder fails
\* and when there is nothing to embed (it sizes the index by embeddings[0]).
from_documents_raises(chunks, embed_ok) == chunks = <<>> \/ ~embed_ok

IngestError(backend_, why) == [kind |-> "error", backend |-> backend_, e |-> why]
NoContent(backend_) == [kind |-> "no content", backend |-> backend_]
IngestSuccess(backend_, nfiles, nchunks) ==
    [kind |-> "success", backend |-> backend_, files |-> nfiles, chunks |-> nchunks]

\* a build that fills the engine's store in place: a failure leaves the part
\* built so far
store_partly_built(old_store, chunks) ==
    IF chunks = <<>> THEN None ELSE FAISS(<<chunks[1]>>)

\* a failure handler that drops the store
store_dropped(old_store, chunks) == None

\* self.vector_store when FAISS.from_documents raised: the assignment of
\* its result never happened
store_after_failed_build(old_store, chunks) == old_store

\* self.vector_store = FAISS.from_documents(documents=chunks, ...)
store_after_build(old_store, chunks) == FAISS(chunks)

\* self.chat_history = [] after the store is assigned
history_after_build(old_history) == <<>>

process_pdfs(self, pdf_files, embed_ok) ==
    LET loaded == load_all(pdf_files, 1, <<>>, self.processed_files, {})
        chunks == split_documents(loaded.all_documents)
        kept == [self EXCEPT !.processed_files = loaded.processed_files]
    IN  IF loaded.raised
        THEN [self |-> kept,
              ret |-> Returned(<<FALSE, IngestError(self.backend, "load")>>),
              tmp |-> loaded.tmp, attempted |-> loaded.attempted]
        ELSE IF loaded.all_documents = <<>>
        THEN [self |-> kept,
              ret |-> Returned(<<FALSE, NoContent(self.backend)>>),
              tmp |-> loaded.tmp, attempted |-> loaded.attempted]
        ELSE IF from_documents_raises(chunks, embed_ok)
        THEN [self |-> [kept EXCEPT
                          !.vector_store = store_after_failed_build(self.vector_store, chunks)],
              ret |-> Returned(<<FALSE, IngestError(self.backend, "index")>>),
              tmp |-> loaded.tmp, attempted |-> loaded.attempted]
        ELSE [self |-> [kept EXCEPT
                          !.vector_store = store_after_build(self.vector_store, chunks),
                          !.chat_history = history_after_build(self.chat_history)],
              ret |-> Returned(<<TRUE, IngestSuccess(self.backend, Len(pdf_files), Len(chunks))>>),
              tmp |-> loaded.tmp, attempted |-> loaded.attempted]

\* the pdf_files a caller may pass
Batches == SeqsUpTo(Uploads, MaxBatch)

\* what the embedder may do; FAISS.from_documents is reached only when every
\* file loaded and some file had a page
EmbedOutcomes(pdf_files) ==
    IF /\ \A i \in 1..Len(pdf_files) : pdf_files[i].content.ok
       /\ \E i \in 1..Len(pdf_files) : pdf_files[i].content.pages # <<>>
    THEN BOOLEAN
    ELSE {TRUE}

\* one call of process_pdfs with a batch of the given set; call keeps the
\* temporary files the call left on disk and the number of files it staged
ProcessPdfsFrom(batches) ==
    \E pdf_files \in batches : \E embed_ok \in EmbedOutcomes(pdf_files) :
        LET r == process_pdfs(Self, pdf_files, embed_ok)
        IN  /\ Len(processed_files) + Len(pdf_files) <= MaxFiles
            /\ vector_store' = r.self.vector_store
            /\ processed_files' = r.self.processed_files
            /\ chat_history' = r.self.chat_history
            /\ lastOp' = "process_pdfs"
            /\ call' = [pdf_files |-> pdf_files, embed_ok |-> embed_ok,
                        tmp_left |-> r.tmp, attempted |-> r.attempted]
            /\ prev' = Summary
            /\ ret' = r.ret
            /\ prompt' = NoPrompt
            /\ UNCHANGED <<backend, session_state>>

ProcessPdfs == ProcessPdfsFrom(Batches)

(* --------------------------- ask_question ----------------------------- *)

\* "Please upload PDF documents first before asking questions." (cloud),
\* "Please upload documents first." (local)
UploadFirst(backend_) == [kind |-> "upload first", backend |-> backend_]
\* f"Error generating response: {str(e)}" (cloud), f"Error: {str(e)}" (local)
AskError(backend_, e) == [kind |-> "error", backend |-> backend_, e |-> e]
\* the text the LLM produced
Generated(text) == [kind |-> "llm", text |-> text]

\* "\n\n".join(doc.page_content for doc in docs)
RECURSIVE join(_, _)
join(sep, texts) ==
    IF texts = <<>> THEN <<>>
    ELSE IF Len(texts) = 1 THEN texts[1]
    ELSE texts[1] \o sep \o join(sep, Tail(texts))

format_docs(docs) == join(<<NL, NL>>, [i \in 1..Len(docs) |-> docs[i].page_content])

\* self.chat_history[:5]
first_turns(history) == SubSeq(history, 1, Min(Len(history), HistoryWindow))

\* self.chat_history[-5:]
last_turns(history) ==
    SubSeq(history, Len(history) - Min(Len(history), HistoryWindow) + 1, Len(history))

\* The lines that "\n".join puts together: f"Human: {human}" and
\* f"Assistant: {ai}" for each of the last turns.
RECURSIVE history_lines(_)
history_lines(turns) ==
    IF turns = <<>> THEN <<>>
    ELSE <<(<<"Human: ", turns[1][1]>>), (<<"Assistant: ", turns[1][2]>>)>>
         \o history_lines(Tail(turns))

format_chat_history(history) ==
    IF history = <<>> THEN << <<"No previous conversation.">> >>
    ELSE history_lines(last_turns(history))

\* the variables given to chain.invoke; the local template has no
\* chat_history
make_prompt(self, docs, question) ==
    IF self.backend = "cloud"
    THEN [kind |-> "cloud",
          context |-> format_docs(docs),
          chat_history |-> format_chat_history(self.chat_history),
          question |-> question]
    ELSE [kind |-> "local",
          context |-> format_docs(docs),
          question |-> question]

SnippetLen(backend_) == IF backend_ = "cloud" THEN CloudSnippetLen ELSE LocalSnippetLen

\* doc.page_content[:300] / doc.page_content[:200]
leading(backend_, text) == SubSeq(text, 1, Min(SnippetLen(backend_), Len(text)))

\* content + "..." if len(doc.page_content) > 300 else content (cloud);
\* content (local)
snippet(backend_, text) ==
    IF backend_ = "cloud" /\ Len(text) > CloudSnippetLen
    THEN leading(backend_, text) \o <<Dot, Dot, Dot>>
    ELSE leading(backend_, text)

\* a citation for every retrieved doc, repeated or not
RECURSIVE cite_every_doc(_, _, _)
cite_every_doc(backend_, docs, seen) ==
    IF docs = <<>> THEN <<>>
    ELSE <<[content |-> snippet(backend_, Head(docs).page_content),
            source |-> Head(docs).source,
            page |-> Head(docs).page]>>
         \o cite_every_doc(backend_, Tail(docs), seen)

\* The loop over docs that builds sources; seen holds the leading texts
\* already cited (the cloud engine keeps their hash()).
RECURSIVE build_sources(_, _, _)
build_sources(backend_, docs, seen) ==
    IF docs = <<>> THEN <<>>
    ELSE LET doc == Head(docs)
             content == leading(backend_, doc.page_content)
         IN  IF content \in seen
             THEN build_sources(backend_, Tail(docs), seen)
             ELSE <<[content |-> snippet(backend_, doc.page_content),
                     source |-> doc.source,
                     page |-> doc.page]>>
                  \o build_sources(backend_, Tail(docs), seen \cup {content})

\* the no-documents answer recorded as a turn
ask_without_store_recorded(self) ==
    [self |-> [self EXCEPT !.chat_history =
                  Append(self.chat_history, <<"", UploadFirst(self.backend)>>)],
     ret |-> Returned(<<UploadFirst(self.backend), <<>>>>),
     prompt |-> NoPrompt]

\* if not self.vector_store: return "Please upload ...", []
ask_without_store(self) ==
    [self |-> self,
     ret |-> Returned(<<UploadFirst(self.backend), <<>>>>),
     prompt |-> NoPrompt]

\* no handler: the exception leaves ask_question
ask_reraise(self, e, sent) ==
    [self |-> self, ret |-> Raised(e), prompt |-> sent]

\* an except clause that also drops the index
ask_except_drops_store(self, e, sent) ==
    [self |-> [self EXCEPT !.vector_store = None],
     ret |-> Returned(<<AskError(self.backend, e), <<>>>>),
     prompt |-> sent]

\* an except clause that records the error answer as a turn
ask_except_records_turn(self, e, sent) ==
    [self |-> [self EXCEPT !.chat_history =
                  Append(self.chat_history, <<"", AskError(self.backend, e)>>)],
     ret |-> Returned(<<AskError(self.backend, e), <<>>>>),
     prompt |-> sent]

\* except Exception as e: return f"Error generating response: {str(e)}", []
ask_except(self, e, sent) ==
    [self |-> self,
     ret |-> Returned(<<AskError(self.backend, e), <<>>>>),
     prompt |-> sent]

\* the turn inserted at the front
prepend_turn(history, question, answer) == <<(<<question, answer>>)>> \o history

\* the stored history cut to the turns the prompt shows
append_and_trim(history, question, answer) ==
    SubSeq(Append(history, <<question, answer>>),
           Len(history) + 1 - Min(Len(history) + 1, HistoryWindow) + 1,
           Len(history) + 1)

\* self.chat_history.append((question, answer))
append_turn(history, question, answer) == Append(history, <<question, answer>>)

\* retriever.invoke(question): the documents at the ranked positions
retrieved(store, ranking) == [i \in 1..Len(ranking) |-> store.docs[ranking[i]]]

ask_question(self, question, retrieval, generation) ==
    IF self.vector_store = None THEN ask_without_store(self)
    ELSE IF ~retrieval.ok THEN ask_except(self, "retrieval", NoPrompt)
    ELSE LET docs == retrieved(self.vector_store, retrieval.ranking)
             sent == make_prompt(self, docs, question)
         IN  IF ~generation.ok THEN ask_except(self, "generation", sent)
             ELSE LET answer == Generated(generation.text)
                  IN  [self |-> [self EXCEPT !.chat_history =
                                    append_turn(self.chat_history, question, answer)],
                       ret |-> Returned(<<answer, build_sources(self.backend, docs, {})>>),
                       prompt |-> sent]

\* Similarity search returns min(k, n) distinct entries of the store in
\* the order the embedding geometry gives them: here the rotations of the
\* insertion order and its reversal, cut to k.
Rotation(n, s) == [i \in 1..n |-> ((s + i - 2) % n) + 1]
Reversed(seq) == [i \in 1..Len(seq) |-> seq[Len(seq) + 1 - i]]
Rankings(n) ==
    {SubSeq(Rotation(n, s), 1, Min(k, n)) : s \in 1..n}
    \cup {SubSeq(Reversed(Rotation(n, 1)), 1, Min(k, n))}

RetrievalFails == [ok |-> FALSE, ranking |-> <<>>]
GenerationFails == [ok |-> FALSE, text |-> ""]

\* what the retriever may do on this store; it is not called without one
Retrievals(store) ==
    IF store = None THEN {RetrievalFails}
    ELSE {RetrievalFails} \cup {[ok |-> TRUE, ranking |-> r] : r \in Rankings(Len(store.docs))}

\* what the LLM may do; it is not called when retrieval failed
Generations(store, retrieval) ==
    IF store = None \/ ~retrieval.ok THEN {GenerationFails}
    ELSE {GenerationFails} \cup {[ok |-> TRUE, text |-> a] : a \in Answers}

\* one call of ask_question
Ask ==
    /\ \E question \in Questions :
       \E retrieval \in Retrievals(vector_store) :
       \E generation \in Generations(vector_store, retrieval) :
        LET r == ask_question(Self, question, retrieval, generation)
        IN  /\ vector_store' = r.self.vector_store
            /\ processed_files' = r.self.processed_files
            /\ chat_history' = r.self.chat_history
            /\ lastOp' = "ask_question"
            /\ call' = [question |-> question,
                        retrieval_ok |-> retrieval.ok,
                        generation_ok |-> generation.ok]
            /\ prev' = Summary
            /\ ret' = r.ret
            /\ prompt' = r.prompt
            /\ UNCHANGED <<backend, session_state>>

AskQuestion == Len(chat_history) < MaxHistory /\ Ask

(* --------------------------- clear_memory ----------------------------- *)

\* clear_memory that clears the documents as well
clear_everything(self) ==
    [self |-> [self EXCEPT !.chat_history = <<>>, !.vector_store = None],
     ret |-> Returned(<<>>)]

\* self.chat_history = []; only the cloud engine defines the method, on the
\* local engine the call is an AttributeError
clear_memory(self) ==
    IF self.backend = "cloud"
    THEN [self |-> [self EXCEPT !.chat_history = <<>>], ret |-> Returned(<<>>)]
    ELSE [self |-> self, ret |-> Raised("AttributeError")]

ClearMemory ==
    LET r == clear_memory(Self)
    IN  /\ vector_store' = r.self.vector_store
        /\ processed_files' = r.self.processed_files
        /\ chat_history' = r.self.chat_history
        /\ lastOp' = "clear_memory"
        /\ call' = <<>>
        /\ prev' = Summary
        /\ ret' = r.ret
        /\ prompt' = NoPrompt
        /\ UNCHANGED <<backend, session_state>>

(* ------------------------------ reset --------------------------------- *)

\* reset that forgets the store
reset_keeps_store(self) ==
    [self EXCEPT !.processed_files = <<>>, !.chat_history = <<>>]

\* def reset(self)
reset(self) ==
    [self EXCEPT !.vector_store = None,
                 !.processed_files = <<>>,
                 !.chat_history = <<>>]

Reset ==
    LET s == reset(Self)
    IN  /\ vector_store' = s.vector_store
        /\ processed_files' = s.processed_files
        /\ chat_history' = s.chat_history
        /\ lastOp' = "reset"
        /\ call' = <<>>
        /\ prev' = Summary
        /\ ret' = Returned(<<>>)
        /\ prompt' = NoPrompt
        /\ UNCHANGED <<backend, session_state>>

(* --------------------------- specification ---------------------------- *)

\* RAGEngine.__init__
Init ==
    /\ backend \in Backends
    /\ vector_store = None
    /\ processed_files = <<>>
    /\ chat_history = <<>>
    /\ lastOp = "init"
    /\ call = <<>>
    /\ prev = [ready |-> FALSE, has_files |-> FALSE, has_turns |-> FALSE]
    /\ ret = Returned(<<>>)
    /\ prompt = NoPrompt
    /\ session_state = None

Next ==
    \/ ProcessPdfs
    \/ AskQuestion
    \/ ClearMemory
    \/ Reset

Spec == Init /\ [][Next]_vars

(* ------------- citations as a function of the retrieved docs ---------- *)

\* texts around the two snippet lengths: exactly as long as the bound, and
\* one character longer with the same leading characters
Fill(n, c) == [i \in 1..n |-> c]
AtCloudBound == Fill(CloudSnippetLen, 1)
OverCloudBound == AtCloudBound \o <<2>>
AtLocalBound == Fill(LocalSnippetLen, 4)
OverLocalBound == AtLocalBound \o <<5>>

\* a chunk as the retriever returns it
Chunk(text, source, page) == [page_content |-> text, source |-> source, page |-> page]

CiteChunks ==
    { Chunk(TextA, "a.pdf", 0), Chunk(TextB, "a.pdf", 1),
      Chunk(AtCloudBound, "b.pdf", 0), Chunk(OverCloudBound, "b.pdf", 1),
      Chunk(AtLocalBound, "a.pdf", 2), Chunk(OverLocalBound, "b.pdf", 2) }

\* what retriever.invoke(question) can return: at most k chunks, in any
\* order, repeated or not
Retrievable == SeqsUpTo(CiteChunks, k)

\* for i, source in enumerate(sources[:3], 1) in render_message
MaxShown == 3

\* every citation is rendered
shown_all(role, sources) == sources

\* the citations render_message puts under a message
shown_sources(role, sources) ==
    IF sources # <<>> /\ role = "assistant"
    THEN SubSeq(sources, 1, Min(MaxShown, Len(sources)))
    ELSE <<>>

InitCite ==
    /\ backend \in Backends
    /\ vector_store = None
    /\ processed_files = <<>>
    /\ chat_history = <<>>
    /\ lastOp = "init"
    /\ call \in [docs : Retrievable]
    /\ prev = [ready |-> FALSE, has_files |-> FALSE, has_turns |-> FALSE]
    /\ ret = Returned(<<>>)
    /\ prompt = NoPrompt
    /\ session_state = None

\* the sources loop of ask_question on the retrieved docs
BuildSources ==
    /\ lastOp = "init"
    /\ lastOp' = "build_sources"
    /\ ret' = Returned(build_sources(backend, call.docs, {}))
    /\ UNCHANGED <<backend, vector_store, processed_files, chat_history, call, prev, prompt,
                   session_state>>

\* render_message("assistant", answer, sources) on the returned sources
RenderMessage ==
    /\ lastOp = "build_sources"
    /\ lastOp' = "render_message"
    /\ ret' = Returned(shown_sources("assistant", ret.value))
    /\ UNCHANGED <<backend, vector_store, processed_files, chat_history, call, prev, prompt,
                   session_state>>

NextCite ==
    \/ BuildSources
    \/ RenderMessage

SpecCite == InitCite /\ [][NextCite]_vars

(* ------------------- calls on a longer conversation ------------------- *)

\* the turns of a conversation: (question, answer) as ask_question appends
\* them
Turns == { <<q, Generated(a)>> : q \in Questions, a \in Answers }

Conversations == SeqsUpTo(Turns, MaxTurns)

\* an engine that processed a.pdf and then answered the questions of a
\* conversation
InitHistory ==
    LET fresh == [backend |-> "cloud", vector_store |-> None,
                  processed_files |-> <<>>, chat_history |-> <<>>]
        file == [name |-> "a.pdf", content |-> Readable(<<TextA>>)]
        loaded == process_pdfs(fresh, <<file>>, TRUE).self
    IN  /\ backend \in Backends
        /\ vector_store = loaded.vector_store
        /\ processed_files = loaded.processed_files
        /\ chat_history \in Conversations
        /\ lastOp = "init"
        /\ call = <<>>
        /\ prev = [ready |-> FALSE, has_files |-> FALSE, has_turns |-> FALSE]
        /\ ret = Returned(<<>>)
        /\ prompt = NoPrompt
        /\ session_state = None

\* one call on that engine
NextHistory ==
    \/ lastOp = "init" /\ Ask
    \/ lastOp = "init" /\ ProcessPdfsFrom(SeqsUpTo(Uploads, 1))
    \/ lastOp = "init" /\ ClearMemory
    \/ lastOp = "init" /\ Reset

SpecHistory == InitHistory /\ [][NextHistory]_vars

(* ------------------- uploads that cannot be staged -------------------- *)

\* the uploads, and one whose bytes cannot be written to the temporary file
StagingUploads == Uploads \cup { [name |-> "a.pdf", content |-> Unwritable] }

NextStaging ==
    \/ ProcessPdfsFrom(SeqsUpTo(StagingUploads, MaxBatch))
    \/ Reset

SpecStaging == Init /\ [][NextStaging]_vars

(* ------------------------- the app's session -------------------------- *)

\* init_session_state
init_session_state ==
    [messages |-> <<>>,
     rag_engine |-> None,
     documents_loaded |-> FALSE,
     api_key_validated |-> FALSE]

\* st.session_state.rag_engine once it is an instance: the engine whose
\* fields are vector_store, processed_files and chat_history
Engine == [kind |-> "RAGEngine"]

\* the fields RAGEngine.__init__ sets
NewEngine(backend_) ==
    [backend |-> backend_, vector_store |-> None,
     processed_files |-> <<>>, chat_history |-> <<>>]

\* The API key field of the sidebar, with a key typed in: nothing once a
\* key was validated; else validate_api_key, and for a valid key the flag
\* is set and then RAGEngine(api_key) is constructed, which may raise.
enter_key(ss, self, valid, constructed) ==
    IF ss.api_key_validated \/ ~valid
    THEN [ss |-> ss, self |-> self, ret |-> Returned(<<>>)]
    ELSE IF ~constructed
    THEN [ss |-> [ss EXCEPT !.api_key_validated = TRUE],
          self |-> self, ret |-> Raised("RAGEngine")]
    ELSE [ss |-> [ss EXCEPT !.api_key_validated = TRUE, !.rag_engine = Engine],
          self |-> NewEngine(self.backend), ret |-> Returned(<<>>)]

\* The Process Documents button, shown with uploaded files and a validated
\* key: process_pdfs on the session's engine, documents_loaded set on
\* success.
process_documents(ss, self, pdf_files, embed_ok) ==
    IF ss.rag_engine = None
    THEN [ss |-> ss, self |-> self, ret |-> Raised("AttributeError")]
    ELSE LET r == process_pdfs(self, pdf_files, embed_ok)
         IN  [ss |-> IF r.ret.value[1] THEN [ss EXCEPT !.documents_loaded = TRUE] ELSE ss,
              self |-> r.self,
              ret |-> Returned(<<>>)]

\* The chat input: the user message is appended, ask_question is called on
\* the session's engine, the assistant message is appended with its sources.
chat_input(ss, self, question, retrieval, generation) ==
    LET asked == Append(ss.messages, [role |-> "user", content |-> question])
    IN  IF ss.rag_engine = None
        THEN [ss |-> [ss EXCEPT !.messages = asked],
              self |-> self, ret |-> Raised("AttributeError")]
        ELSE LET r == ask_question(self, question, retrieval, generation)
             IN  [ss |-> [ss EXCEPT !.messages =
                            Append(asked, [role |-> "assistant",
                                           content |-> r.ret.value[1],
                                           sources |-> r.ret.value[2]])],
                  self |-> r.self,
                  ret |-> Returned(<<>>)]

\* The Clear Chat button
clear_chat(ss, self) ==
    LET cleared == [ss EXCEPT !.messages = <<>>]
    IN  IF ss.rag_engine = None
        THEN [ss |-> cleared, self |-> self, ret |-> Returned(<<>>)]
        ELSE [ss |-> cleared, self |-> clear_memory(self).self, ret |-> clear_memory(self).ret]

\* a Reset All that leaves documents_loaded as it is
reset_all_keeps_flag(ss, self) ==
    [ss |-> [ss EXCEPT !.messages = <<>>],
     self |-> IF ss.rag_engine = None THEN self ELSE reset(self),
     ret |-> Returned(<<>>)]

\* The Reset All button
reset_all(ss, self) ==
    [ss |-> [ss EXCEPT !.messages = <<>>, !.documents_loaded = FALSE],
     self |-> IF ss.rag_engine = None THEN self ELSE reset(self),
     ret |-> Returned(<<>>)]

\* one script run of the app that handled the widget op with result r
Rerun(op, r) ==
    /\ session_state' = r.ss
    /\ vector_store' = r.self.vector_store
    /\ processed_files' = r.self.processed_files
    /\ chat_history' = r.self.chat_history
    /\ lastOp' = op
    /\ ret' = r.ret
    /\ UNCHANGED <<backend, call, prev, prompt>>

EnterKey ==
    \E valid \in BOOLEAN : \E constructed \in (IF valid THEN BOOLEAN ELSE {TRUE}) :
        Rerun("enter_key", enter_key(session_state, Self, valid, constructed))

ProcessDocuments ==
    /\ session_state.api_key_validated
    /\ \E pdf_files \in Batches \ {<<>>} : \E embed_ok \in EmbedOutcomes(pdf_files) :
          /\ Len(processed_files) + Len(pdf_files) <= MaxFiles
          /\ Rerun("process_documents",
                   process_documents(session_state, Self, pdf_files, embed_ok))

ChatInput ==
    /\ session_state.documents_loaded
    /\ Len(session_state.messages) < MaxMessages
    /\ \E question \in Questions :
       \E retrieval \in Retrievals(vector_store) :
       \E generation \in Generations(vector_store, retrieval) :
          Rerun("chat_input",
                chat_input(session_state, Self, question, retrieval, generation))

ClearChat == Rerun("clear_chat", clear_chat(session_state, Self))

ResetAll == Rerun("reset_all", reset_all(session_state, Self))

\* the app as main() starts it: app.py imports the cloud engine
InitUI ==
    /\ backend = "cloud"
    /\ vector_store = None
    /\ processed_files = <<>>
    /\ chat_history = <<>>
    /\ lastOp = "init"
    /\ call = <<>>
    /\ prev = [ready |-> FALSE, has_files |-> FALSE, has_turns |-> FALSE]
    /\ ret = Returned(<<>>)
    /\ prompt = NoPrompt
    /\ session_state = init_session_state

NextUI ==
    \/ EnterKey
    \/ ProcessDocuments
    \/ ChatInput
    \/ ClearChat
    \/ ResetAll

SpecUI == InitUI /\ [][NextUI]_vars

(* ------------------------------ claims -------------------------------- *)

IsIngest(op) == op = "process_pdfs"
IsAsk(op) == op = "ask_question"

\* the three engine fields are what they were before the step
FieldsUnchanged ==
    /\ vector_store' = vector_store
    /\ processed_files' = processed_files
    /\ chat_history' = chat_history

FileNames(pdf_files) == [i \in 1..Len(pdf_files) |-> pdf_files[i].name]

IsPrefix(s, t) == Len(s) <= Len(t) /\ SubSeq(t, 1, Len(s)) = s

\* the chunks of a whole batch, every file loaded and split
RECURSIVE BatchDocuments(_)
BatchDocuments(pdf_files) ==
    IF pdf_files = <<>> THEN <<>>
    ELSE load(Head(pdf_files)) \o BatchDocuments(Tail(pdf_files))

BatchChunks(pdf_files) == split_documents(BatchDocuments(pdf_files))

\* C1: a process_pdfs call that returns failure leaves vector_store,
\* processed_files and chat_history equal to their values before the call.
C1_FailedIngestLeavesState ==
    [][(IsIngest(lastOp') /\ ~ret'.raised /\ ret'.value[1] = FALSE) => FieldsUnchanged]_vars

\* C2: on an engine without an index, ask_question returns the fixed
\* upload-first answer with no citations, raises nothing and changes none
\* of the three fields.
C2_AskWithoutIndex ==
    [][(IsAsk(lastOp') /\ vector_store = None) =>
          /\ ret' = Returned(<<UploadFirst(backend), <<>>>>)
          /\ FieldsUnchanged]_vars

C2_Witness ==
    /\ IsAsk(lastOp)
    /\ ~prev.ready
    /\ vector_store = None
    /\ ret = Returned(<<UploadFirst(backend), <<>>>>)

\* C3: the index changes only by reset (to absent) or by a process_pdfs
\* call that succeeds, and then it is the index of all chunks of that one
\* batch; a failed call on a Ready engine keeps the index, and the citations
\* of a following ask come from it.
C3_IndexReplacedOnlyOnSuccess ==
    [][/\ (vector_store' # vector_store) =>
            \/ lastOp' = "reset" /\ vector_store' = None
            \/ /\ IsIngest(lastOp') /\ ret'.value[1] = TRUE
               /\ \A i \in 1..Len(call'.pdf_files) : call'.pdf_files[i].content.ok
               /\ BatchChunks(call'.pdf_files) # <<>>
               /\ vector_store' = FAISS(BatchChunks(call'.pdf_files))
       /\ (IsIngest(lastOp') /\ ret'.value[1] = FALSE) => vector_store' = vector_store
       /\ (IsAsk(lastOp') /\ vector_store # None) =>
            \A i \in 1..Len(ret'.value[2]) :
                \E j \in 1..Len(vector_store.docs) :
                    /\ ret'.value[2][i].source = vector_store.docs[j].source
                    /\ ret'.value[2][i].page = vector_store.docs[j].page]_vars

C3_Witness ==
    /\ IsIngest(lastOp)
    /\ ret.value[1] = FALSE
    /\ prev.ready
    /\ vector_store # None
    /\ Len(call.pdf_files) = 2
    /\ call.pdf_files[1].content.ok
    /\ ~call.embed_ok

\* C4: after a successful process_pdfs on a Ready engine, every chunk that
\* was in the index before the call is still in the index.
C4_IngestKeepsEarlierChunks ==
    [][(IsIngest(lastOp') /\ ret'.value[1] = TRUE /\ vector_store # None) =>
          \A i \in 1..Len(vector_store.docs) :
              \E j \in 1..Len(vector_store'.docs) :
                  vector_store'.docs[j] = vector_store.docs[i]]_vars

\* C5: reset leaves the engine with no index, no file names and no turns,
\* and the ask_question that follows it returns the upload-first answer
\* with no citations.
C5_ResetClearsAll ==
    [][/\ (lastOp' = "reset") =>
            /\ vector_store' = None
            /\ processed_files' = <<>>
            /\ chat_history' = <<>>
       /\ (lastOp = "reset" /\ IsAsk(lastOp')) =>
            ret' = Returned(<<UploadFirst(backend), <<>>>>)]_vars

C5_Witness ==
    /\ lastOp = "reset"
    /\ prev.ready
    /\ prev.has_turns
    /\ prev.has_files
    /\ vector_store = None
    /\ processed_files = <<>>
    /\ chat_history = <<>>

\* C6: clear_memory of the cloud engine empties chat_history and keeps
\* vector_store and processed_files; the ask_question that follows it on a
\* Ready engine retrieves from that same store and its prompt carries the
\* no-previous-conversation placeholder as history.
C6_ClearMemoryKeepsIndex ==
    [][/\ (lastOp' = "clear_memory" /\ backend = "cloud") =>
            /\ ~ret'.raised
            /\ chat_history' = <<>>
            /\ vector_store' = vector_store
            /\ processed_files' = processed_files
       /\ (lastOp = "clear_memory" /\ backend = "cloud" /\ prev.ready /\ IsAsk(lastOp')) =>
            /\ vector_store # None
            /\ ret'.value[1] # UploadFirst(backend)
            /\ (call'.retrieval_ok =>
                  /\ prompt'.chat_history = << <<"No previous conversation.">> >>
                  /\ \E r \in Rankings(Len(vector_store.docs)) :
                        prompt'.context = format_docs(retrieved(vector_store, r)))]_vars

C6_Witness ==
    /\ lastOp = "clear_memory"
    /\ backend = "cloud"
    /\ prev.ready
    /\ prev.has_turns
    /\ vector_store # None
    /\ chat_history = <<>>

\* C7: when retrieval or generation fails during ask_question on a Ready
\* engine, the call raises nothing and returns an answer describing the
\* error together with an empty citation list.
C7_AskFailureIsReturned ==
    [][(IsAsk(lastOp') /\ vector_store # None
          /\ (~call'.retrieval_ok \/ ~call'.generation_ok)) =>
          /\ ~ret'.raised
          /\ ret'.value[1] = AskError(backend,
                 IF call'.retrieval_ok THEN "generation" ELSE "retrieval")
          /\ ret'.value[2] = <<>>]_vars

C7_Witness ==
    /\ IsAsk(lastOp)
    /\ prev.ready
    /\ call.retrieval_ok
    /\ ~call.generation_ok
    /\ ~ret.raised
    /\ ret.value[1].kind = "error"
    /\ ret.value[2] = <<>>

\* C8: a successful ask_question(q) on a Ready engine that returns answer a
\* makes chat_history the old chat_history followed by the turn (q, a), and
\* leaves vector_store and processed_files as they were.
C8_AskAppendsOneTurn ==
    [][(IsAsk(lastOp') /\ vector_store # None /\ ~ret'.raised /\ ret'.value[1].kind = "llm") =>
          /\ chat_history' = chat_history \o << <<call'.question, ret'.value[1]>> >>
          /\ vector_store' = vector_store
          /\ processed_files' = processed_files]_vars

C8_Witness ==
    /\ IsAsk(lastOp)
    /\ prev.ready
    /\ ~ret.raised
    /\ ret.value[1].kind = "llm"
    /\ Len(chat_history) >= 2
    /\ chat_history[1][1] # chat_history[2][1]
    /\ chat_history[Len(chat_history)] = <<call.question, ret.value[1]>>

\* C9: an engine without an index gets one only by a process_pdfs call that
\* returns success, and an engine with an index loses it only by reset.
C9_IndexPresenceStateMachine ==
    [][/\ (vector_store = None /\ vector_store' # None) =>
            (IsIngest(lastOp') /\ ret'.value[1] = TRUE)
       /\ (vector_store # None /\ vector_store' = None) => lastOp' = "reset"
       /\ (lastOp' \in {"ask_question", "clear_memory"}) =>
            ((vector_store' = None) <=> (vector_store = None))
       /\ (IsIngest(lastOp') /\ ret'.value[1] = FALSE) =>
            ((vector_store' = None) <=> (vector_store = None))]_vars

C9_Witness ==
    /\ IsIngest(lastOp)
    /\ ~prev.ready
    /\ prev.has_files
    /\ ret.value[1] = TRUE
    /\ vector_store # None

\* C10: a successful process_pdfs makes processed_files the old
\* processed_files followed by the names of its batch in batch order, and no
\* method but reset removes or reorders names.
C10_SuccessfulIngestAppendsNames ==
    [][/\ (IsIngest(lastOp') /\ ret'.value[1] = TRUE) =>
            processed_files' = processed_files \o FileNames(call'.pdf_files)
       /\ (lastOp' # "reset") => IsPrefix(processed_files, processed_files')]_vars

C10_Witness ==
    /\ IsIngest(lastOp)
    /\ ret.value[1] = TRUE
    /\ prev.has_files
    /\ Len(call.pdf_files) = 2
    /\ call.pdf_files[1].name # call.pdf_files[2].name
    /\ processed_files[1] # processed_files[2]
    /\ processed_files[Len(processed_files)] = call.pdf_files[2].name

\* every file of the batch is written and loaded without an error
AllLoad(pdf_files) ==
    \A i \in 1..Len(pdf_files) : pdf_files[i].content.writable /\ pdf_files[i].content.ok

\* C11: a process_pdfs call whose files all load but yield no chunk in
\* aggregate (no page at all, or only pages with empty text) returns
\* failure and leaves vector_store as it was, so it does not make the
\* engine Ready.
C11_ZeroChunksIngestFails ==
    [][(/\ IsIngest(lastOp')
        /\ AllLoad(call'.pdf_files)
        /\ BatchChunks(call'.pdf_files) = <<>>) =>
          /\ ret' = Returned(<<FALSE, ret'.value[2]>>)
          /\ vector_store' = vector_store
          /\ (vector_store = None => vector_store' = None)]_vars

\* blank pages only: the documents list is not empty, the chunk list is
C11_Witness ==
    /\ IsIngest(lastOp)
    /\ AllLoad(call.pdf_files)
    /\ BatchDocuments(call.pdf_files) # <<>>
    /\ BatchChunks(call.pdf_files) = <<>>
    /\ ret.value[1] = FALSE
    /\ ~prev.ready
    /\ vector_store = None

\* the first n characters of a text
LeadingChars(text, n) == SubSeq(text, 1, Min(n, Len(text)))

\* the positions of docs whose leading characters occur at no earlier
\* position
FirstOccurrences(backend_, docs) ==
    { i \in 1..Len(docs) :
        \A j \in 1..(i - 1) :
            LeadingChars(docs[j].page_content, SnippetLen(backend_))
                # LeadingChars(docs[i].page_content, SnippetLen(backend_)) }

\* the m-th smallest element of a set of positions
NthOf(P, m) == CHOOSE i \in P : Cardinality({ j \in P : j <= i }) = m

\* C12: the citation list holds exactly the first occurrence of each
\* distinct leading-N-character prefix of the retrieved chunks, in retrieval
\* order; no two citations share their leading N characters.
C12_FirstOccurrencesCited ==
    lastOp = "build_sources" =>
        LET docs == call.docs
            sources == ret.value
            P == FirstOccurrences(backend, docs)
            N == SnippetLen(backend)
        IN  /\ Len(sources) = Cardinality(P)
            /\ \A m \in 1..Len(sources) :
                  /\ sources[m].source = docs[NthOf(P, m)].source
                  /\ sources[m].page = docs[NthOf(P, m)].page
                  /\ LeadingChars(sources[m].content, N)
                        = LeadingChars(docs[NthOf(P, m)].page_content, N)
            /\ \A m, n \in 1..Len(sources) :
                  m # n => LeadingChars(sources[m].content, N)
                              # LeadingChars(sources[n].content, N)

\* [A, A', B, A]: A' is one character longer than A, same leading text
C12_Witness ==
    /\ lastOp = "build_sources"
    /\ call.docs = << Chunk(AtCloudBound, "b.pdf", 0), Chunk(OverCloudBound, "b.pdf", 1),
                      Chunk(TextB, "a.pdf", 1), Chunk(AtCloudBound, "b.pdf", 0) >>
    /\ Len(ret.value) = 2
    /\ ret.value[1].page = 0
    /\ ret.value[2].source = "a.pdf"

\* C13: the citations shown under an answer are at most 3: render_message
\* shows the first 3 of the list ask_question returns, which are the first
\* 3 distinct chunks in retrieval order, while the returned list itself
\* holds every distinct chunk (4 when the 4 retrieved chunks are pairwise
\* non-duplicate).
C13_ShownCitationsAtMostThree ==
    LET docs == call.docs
        P == FirstOccurrences(backend, docs)
    IN  /\ lastOp = "build_sources" => Len(ret.value) = Cardinality(P)
        /\ lastOp = "render_message" =>
              /\ Len(ret.value) = Min(MaxShown, Cardinality(P))
              /\ ret.value = SubSeq(build_sources(backend, docs, {}), 1, Len(ret.value))
              /\ \A m \in 1..Len(ret.value) :
                    /\ ret.value[m].source = docs[NthOf(P, m)].source
                    /\ ret.value[m].page = docs[NthOf(P, m)].page

\* four pairwise non-duplicate chunks retrieved, three citations shown
C13_Witness ==
    /\ lastOp = "render_message"
    /\ Len(call.docs) = k
    /\ Cardinality(FirstOccurrences(backend, call.docs)) = k
    /\ Len(ret.value) = MaxShown
    /\ ret.value[MaxShown].source = call.docs[MaxShown].source

\* C13 as stated: the list the engine returns holds at most 3 citations.
C13_EngineReturnsAtMostThree ==
    lastOp = "build_sources" => Len(ret.value) <= MaxShown

\* C20: a citation's snippet is the chunk text cut to the bound, with the
\* ellipsis appended exactly when the text is longer than the bound.
C20_EllipsisIffLonger ==
    lastOp = "build_sources" =>
        LET docs == call.docs
            P == FirstOccurrences(backend, docs)
            N == SnippetLen(backend)
        IN  \A m \in 1..Min(Len(ret.value), Cardinality(P)) :
                LET text == docs[NthOf(P, m)].page_content
                IN  ret.value[m].content =
                        IF Len(text) > N
                        THEN LeadingChars(text, N) \o <<Dot, Dot, Dot>>
                        ELSE text

\* block is the history block of the given turns: the placeholder for no
\* turn, else the question line and the answer line of each of the last
\* min(n, 5) turns, oldest first
HistoryBlock(history, block) ==
    LET n == Len(history)
        m == Min(n, HistoryWindow)
    IN  /\ block # <<>>
        /\ \A i \in 1..Len(block) : block[i] # <<>>
        /\ IF n = 0
           THEN block = << <<"No previous conversation.">> >>
           ELSE /\ Len(block) = 2 * m
                /\ \A i \in 1..m :
                      /\ block[2 * i - 1] = <<"Human: ", history[n - m + i][1]>>
                      /\ block[2 * i] = <<"Assistant: ", history[n - m + i][2]>>

\* C14: the history block of a prompt of the cloud engine holds the last
\* min(n, 5) of the n turns recorded before the ask, each as its question
\* line followed by its answer line, oldest first; with no turn it is the
\* fixed placeholder, never the empty string.
C14_HistoryBlockLastFive ==
    [][(IsAsk(lastOp') /\ prompt'.kind = "cloud") =>
          HistoryBlock(chat_history, prompt'.chat_history)]_vars

\* an ask on more than five recorded turns
C14_Witness ==
    /\ IsAsk(lastOp)
    /\ prompt.kind = "cloud"
    /\ ret.value[1].kind = "llm"
    /\ Len(chat_history) = HistoryWindow + 2
    /\ Len(prompt.chat_history) = 2 * HistoryWindow
    /\ prompt.chat_history[1] = <<"Human: ", chat_history[2][1]>>
    /\ chat_history[1][1] # chat_history[2][1]

\* a process_pdfs call that returned success
IngestSucceeded(op, r) == IsIngest(op) /\ r.value[1] = TRUE

\* C17: apart from reset, clear_memory and a successful process_pdfs (which
\* empties chat_history), no call removes, reorders or rewrites a recorded
\* turn: an ask keeps every turn stored, also those beyond the 5 the prompt
\* shows, and a failed process_pdfs leaves chat_history as it was.
C17_HistoryAppendOnly ==
    [][/\ (lastOp' \notin {"reset", "clear_memory"} /\ ~IngestSucceeded(lastOp', ret'))
            => IsPrefix(chat_history, chat_history')
       /\ (IsIngest(lastOp') /\ ~IngestSucceeded(lastOp', ret'))
            => chat_history' = chat_history
       /\ IngestSucceeded(lastOp', ret') => chat_history' = <<>>]_vars

\* a seventh turn recorded, the first one still stored
C17_Witness ==
    /\ IsAsk(lastOp)
    /\ ret.value[1].kind = "llm"
    /\ Len(chat_history) = HistoryWindow + 2
    /\ chat_history[Len(chat_history)] = <<call.question, ret.value[1]>>
    /\ prev.has_turns

\* C17 as stated: process_pdfs does not change chat_history either.
C17_OnlyResetAndClearShorten ==
    [][lastOp' \notin {"reset", "clear_memory"} => IsPrefix(chat_history, chat_history')]_vars

\* the last call ended in failure: process_pdfs returned (False, ...), or
\* ask_question returned its error answer
LastFailed ==
    \/ IsIngest(lastOp) /\ ret.value[1] = FALSE
    \/ IsAsk(lastOp) /\ ret.value[1].kind = "error"

C16_PromptHoldsContextHistoryQuestion ==
    [][(IsAsk(lastOp') /\ vector_store # None /\ call'.retrieval_ok) =>
          /\ \E r \in Rankings(Len(vector_store.docs)) :
                prompt'.context =
                    join(<<NL, NL>>, [i \in 1..Len(r) |-> vector_store.docs[r[i]].page_content])
          /\ prompt'.question = call'.question
          /\ "chat_history" \in DOMAIN prompt'
          /\ HistoryBlock(chat_history, prompt'.chat_history)
          /\ IF call'.generation_ok
             THEN chat_history' = Append(chat_history, <<call'.question, ret'.value[1]>>)
             ELSE chat_history' = chat_history]_vars

\* C18: by the time process_pdfs returns, every temporary file it created
\* is deleted, on success and on every failure path, a failure while the
\* bytes are written included.
C18_NoStagingFileLeft ==
    IsIngest(lastOp) => call.tmp_left = {}

\* the position of the first file of the batch whose load raises
FirstUnreadable(pdf_files) ==
    CHOOSE j \in 1..Len(pdf_files) :
        /\ ~pdf_files[j].content.ok
        /\ \A i \in 1..(j - 1) : pdf_files[i].content.ok

\* C19: process_pdfs takes the files in order and the first load that
\* raises ends the call: no later file is staged or loaded, no index is
\* built from the files before it, and the call returns failure.
C19_FirstLoadErrorAborts ==
    [][(IsIngest(lastOp') /\ ~AllLoad(call'.pdf_files)) =>
          /\ ret'.value[1] = FALSE
          /\ call'.attempted = FirstUnreadable(call'.pdf_files)
          /\ vector_store' = vector_store
          /\ \A i \in 1..Len(processed_files') :
                i > Len(processed_files) =>
                    /\ i - Len(processed_files) < FirstUnreadable(call'.pdf_files)
                    /\ processed_files'[i] = call'.pdf_files[i - Len(processed_files)].name]_vars

\* the first file does not load, the second one has text and is never
\* reached
C19_Witness ==
    /\ IsIngest(lastOp)
    /\ Len(call.pdf_files) = 2
    /\ ~call.pdf_files[1].content.ok
    /\ call.pdf_files[2].content.ok
    /\ load(call.pdf_files[2]) # <<>>
    /\ call.attempted = 1
    /\ ret.value[1] = FALSE
    /\ vector_store = None
    /\ processed_files = <<>>

\* C21: an ask_question on a Ready engine that ends in the error answer
\* leaves vector_store, processed_files and chat_history as they were, so
\* no later history block holds an error answer: every answer line of a
\* prompt is an answer of the LLM.
C21_FailedAskChangesNothing ==
    [][/\ (IsAsk(lastOp') /\ vector_store # None /\ ret'.value[1].kind = "error")
            => FieldsUnchanged
       /\ (IsAsk(lastOp') /\ prompt'.kind = "cloud" /\ chat_history # <<>>) =>
             \A i \in 1..(Len(prompt'.chat_history) \div 2) :
                prompt'.chat_history[2 * i][2].kind = "llm"]_vars

\* a failed ask of a question that is not in the one recorded turn
C21_Witness ==
    /\ IsAsk(lastOp)
    /\ prev.ready
    /\ prev.has_turns
    /\ ret.value[1].kind = "error"
    /\ vector_store # None
    /\ Len(chat_history) = 1
    /\ chat_history[1][1] # call.question
    /\ chat_history[1][2].kind = "llm"

\* the names in processed_files
Recorded == { processed_files[i] : i \in 1..Len(processed_files) }

\* C22: in every reachable state, if vector_store is present then
\* processed_files is not empty and holds the name of every document that
\* has a chunk in the index.
C22_IndexedDocumentsAreRecorded ==
    vector_store # None =>
        /\ processed_files # <<>>
        /\ \A i \in 1..Len(vector_store.docs) : vector_store.docs[i].source \in Recorded

\* an index over chunks of two documents, both names recorded
C22_Witness ==
    /\ vector_store # None
    /\ \E i, j \in 1..Len(vector_store.docs) :
          vector_store.docs[i].source # vector_store.docs[j].source
    /\ \A i \in 1..Len(vector_store.docs) : vector_store.docs[i].source \in Recorded
    /\ Len(processed_files) >= 2

\* C23: in the app's session, documents_loaded implies that the session
\* holds a RAGEngine and that its vector_store is present; hence no
\* assistant message is the upload-first placeholder.
C23_DocumentsLoadedMeansIndex ==
    /\ session_state.documents_loaded =>
          (session_state.rag_engine # None /\ vector_store # None)
    /\ \A i \in 1..Len(session_state.messages) :
          session_state.messages[i].role = "assistant" =>
              session_state.messages[i].content.kind # "upload first"

\* a question answered by the LLM in a session with documents loaded
C23_Witness ==
    /\ session_state.documents_loaded
    /\ session_state.rag_engine = Engine
    /\ vector_store # None
    /\ lastOp = "chat_input"
    /\ Len(session_state.messages) = 2
    /\ session_state.messages[2].role = "assistant"
    /\ session_state.messages[2].content.kind = "llm"
    /\ chat_history = << <<session_state.messages[1].content, session_state.messages[2].content>> >>

\* two call results leave the same engine fields and end the same way
SameOutcome(rc, rl) ==
    /\ rc.ret.raised = rl.ret.raised
    /\ rc.self.vector_store = rl.self.vector_store
    /\ rc.self.processed_files = rl.self.processed_files
    /\ rc.self.chat_history = rl.self.chat_history

\* C24: the cloud engine and the local engine are interchangeable: from
\* every reachable state of the three fields, each call (process_pdfs,
\* ask_question, clear_memory, reset) with the same collaborator outcomes is
\* accepted by both, leaves both with the same fields and gives the same
\* success or failure.
C24_EnginesInterchangeable ==
    LET cloud == [Self EXCEPT !.backend = "cloud"]
        local == [Self EXCEPT !.backend = "local"]
    IN  /\ \A pdf_files \in Batches : \A embed_ok \in BOOLEAN :
              /\ SameOutcome(process_pdfs(cloud, pdf_files, embed_ok),
                             process_pdfs(local, pdf_files, embed_ok))
              /\ process_pdfs(cloud, pdf_files, embed_ok).ret.value[1]
                    = process_pdfs(local, pdf_files, embed_ok).ret.value[1]
        /\ \A question \in Questions :
           \A retrieval \in Retrievals(vector_store) :
           \A generation \in Generations(vector_store, retrieval) :
              /\ SameOutcome(ask_question(cloud, question, retrieval, generation),
                             ask_question(local, question, retrieval, generation))
              /\ ask_question(cloud, question, retrieval, generation).ret.value[1].kind
                    = ask_question(local, question, retrieval, generation).ret.value[1].kind
        /\ reset(cloud).vector_store = reset(local).vector_store
        /\ reset(cloud).processed_files = reset(local).processed_files
        /\ reset(cloud).chat_history = reset(local).chat_history
        /\ SameOutcome(clear_memory(cloud), clear_memory(local))

====
